---- MODULE Spec2Model ----
(***************************************************************************)
(* Scoring pipeline of the developer aptitude assessment:                  *)
(*   question scorer  -> category scorer -> weighted contributions ->      *)
(*   overall scorer -> performance analyzer -> career recommender, plus    *)
(*   the tier mapper and the validation of the input.                      *)
(*                                                                         *)
(* JavaScript numbers are modelled as exact rationals <<n, d>> in lowest   *)
(* terms with d > 0; the guards against division by zero are the ones the  *)
(* source writes.  IEEE-754 rounding is not modelled.                      *)
(***************************************************************************)
EXTENDS Integers, Sequences, FiniteSets, TLC

VARIABLES
    \* one call of scoreQuestion(question, userAnswers)
    question,        \* the question argument
    userAnswers,     \* the submitted indices
    questionResult,  \* <<result>> once returned, <<>> otherwise
    questionError,   \* message of the thrown Error, "" if none
    qpc,             \* "idle" | "call" | "returned" | "threw"
    \* one run of scoreAssessment(input, options), alone or from
    \* scoreAssessmentWithValidation
    input,           \* [assessmentId, userId, questions, userAnswers]
    options,         \* the options argument; a field is <<value>>, or <<>> if omitted
    recommenderLoads,\* whether the recommender's data files load in this installation
    pc,              \* the step scoreAssessment is about to take
    validation,      \* <<[valid, errors]>> once validateAssessmentInput returned
    questionResults, \* step 1
    categoryResults, \* steps 2 and 3
    overall,         \* step 4: <<OverallResult>> once computed
    metadata,        \* step 5: <<AssessmentMetadata>> once computed
    analysis,        \* step 6: <<PerformanceAnalysis>> once computed
    recommendations, \* step 7: <<RecommendationSet>> once computed
    assessmentError, \* message of the Error the run rejected with, "" if none
    \* a caller of the category scorer's exported functions
    categoryList,    \* the CategoryResult[] the caller holds
    lastCall,        \* name of the last function called, "none" at first
    lastInput,       \* argument of the last call
    overallScore,    \* <<number>> returned by the last calculateOverallScore
    halvedScore,     \* <<number>> returned for that list with one category in halves
    \* calls of the tier mapper on two percentages
    percentages,     \* <<p1, p2>>
    tiers,           \* <<getTierFromPercentage(p1), ...(p2)>> once called
    classifications, \* <<getPerformanceClassification(p1), ...(p2)>> once called
    \* a caller of the performance analyzer's exported functions
    analysisCategories, \* the CategoryResult[] argument
    analysisOverall,    \* the OverallResult argument
    performanceAnalysis,\* <<analyzePerformance(...)>> once called
    consistencyMetrics, \* <<calculateConsistency(...)>> once called
    profile             \* <<identifyProfile(...)>> once called

questionVars == <<question, userAnswers, questionResult, questionError, qpc>>
assessmentVars ==
    <<input, options, recommenderLoads, pc, validation, questionResults,
      categoryResults, overall, metadata, analysis, recommendations, assessmentError>>
categoryVars == <<categoryList, lastCall, lastInput, overallScore, halvedScore>>
tierVars == <<percentages, tiers, classifications>>
analysisVars ==
    <<analysisCategories, analysisOverall, performanceAnalysis, consistencyMetrics,
      profile>>
vars == <<questionVars, assessmentVars, categoryVars, tierVars, analysisVars>>

(***************************************************************************)
(* Bounds of the model                                                     *)
(***************************************************************************)
MaxOptions == 4     \* answer options of a question
MaxCorrect == 2     \* length of a question's correctAnswers list
MaxSubmitted == 3   \* length of a submitted answer list

(***************************************************************************)
(* Numbers                                                                 *)
(***************************************************************************)
Abs(x) == IF x < 0 THEN -x ELSE x

RECURSIVE Gcd(_, _)
Gcd(a, b) == IF b = 0 THEN a ELSE Gcd(b, a % b)

\* the rational n/d in lowest terms, d # 0
Rat(n, d) ==
    LET g == Gcd(Abs(n), Abs(d))
        s == IF d < 0 THEN -1 ELSE 1
    IN  <<(s * n) \div g, (s * d) \div g>>

Num(x) == <<x, 1>>
Zero == Num(0)
RAdd(x, y) == Rat(x[1] * y[2] + y[1] * x[2], x[2] * y[2])
RSub(x, y) == Rat(x[1] * y[2] - y[1] * x[2], x[2] * y[2])
RMul(x, y) == Rat(x[1] * y[1], x[2] * y[2])
RDiv(x, y) == Rat(x[1] * y[2], x[2] * y[1])
RLt(x, y) == x[1] * y[2] < y[1] * x[2]
RLe(x, y) == x[1] * y[2] <= y[1] * x[2]
RGt(x, y) == RLt(y, x)
RGe(x, y) == RLe(y, x)
RMax(x, y) == IF RLt(x, y) THEN y ELSE x

(***************************************************************************)
(* Helpers on sequences                                                    *)
(***************************************************************************)
ToSet(s) == {s[i] : i \in DOMAIN s}
SeqsUpTo(S, n) == UNION {[1..k -> S] : k \in 0..n}
NonDecreasing(s) == \A i \in DOMAIN s : \A j \in DOMAIN s : i < j => s[i] <= s[j]

(***************************************************************************)
(* Question scorer                                                         *)
(***************************************************************************)
QuestionTypes == {"multipleChoice", "trueFalse", "multipleSelect"}

\* mutant of validateQuestionInput: the range checks forget the lower bound
validateQuestionInput_NoLowerBound(q, ua) ==
    LET maxIndex == Len(q.answers) - 1 IN
    IF q.id = "" THEN "Question must have an id"
    ELSE IF q.type = "" THEN "Question must have a type"
    ELSE IF Len(q.correctAnswers) = 0 THEN "must have correct answers"
    ELSE IF q.score < 0 THEN "must have a valid score"
    ELSE IF Len(q.answers) = 0 THEN "must have answers"
    ELSE IF \E i \in DOMAIN ua : ua[i] > maxIndex
        THEN "Invalid answer index"
    ELSE IF \E i \in DOMAIN q.correctAnswers : q.correctAnswers[i] > maxIndex
        THEN "Invalid correct answer index"
    ELSE IF q.type = "trueFalse" /\ Len(q.answers) # 2
        THEN "True/False must have exactly 2 answers"
    ELSE IF q.type \in {"trueFalse", "multipleChoice"} /\ Len(q.correctAnswers) # 1
        THEN "must have exactly 1 correct answer"
    ELSE IF q.type \in {"multipleChoice", "multipleSelect"} /\ Len(q.answers) < 2
        THEN "must have at least 2 answers"
    ELSE ""

\* validateQuestionInput: "" when the input is accepted, else the kind of the
\* Error thrown (the first failing check, in source order)
validateQuestionInput(q, ua) ==
    LET maxIndex == Len(q.answers) - 1 IN
    IF q.id = "" THEN "Question must have an id"
    ELSE IF q.type = "" THEN "Question must have a type"
    ELSE IF Len(q.correctAnswers) = 0 THEN "must have correct answers"
    ELSE IF q.score < 0 THEN "must have a valid score"
    ELSE IF Len(q.answers) = 0 THEN "must have answers"
    ELSE IF \E i \in DOMAIN ua : ua[i] < 0 \/ ua[i] > maxIndex
        THEN "Invalid answer index"
    ELSE IF \E i \in DOMAIN q.correctAnswers :
                q.correctAnswers[i] < 0 \/ q.correctAnswers[i] > maxIndex
        THEN "Invalid correct answer index"
    ELSE IF q.type = "trueFalse" /\ Len(q.answers) # 2
        THEN "True/False must have exactly 2 answers"
    ELSE IF q.type = "trueFalse" /\ Len(q.correctAnswers) # 1
        THEN "True/False must have exactly 1 correct answer"
    ELSE IF q.type = "multipleChoice" /\ Len(q.answers) < 2
        THEN "Multiple choice must have at least 2 answers"
    ELSE IF q.type = "multipleChoice" /\ Len(q.correctAnswers) # 1
        THEN "Multiple choice must have exactly 1 correct answer"
    ELSE IF q.type = "multipleSelect" /\ Len(q.answers) < 2
        THEN "Multiple select must have at least 2 answers"
    ELSE IF q.type = "multipleSelect" /\ Len(q.correctAnswers) < 1
        THEN "Multiple select must have at least 1 correct answer"
    ELSE ""

\* mutant of scoreStandardQuestion: compares the submission as a set
scoreStandardQuestion_AsSet(q, ua) ==
    LET isCorrect == ua # <<>> /\ ToSet(ua) = ToSet(q.correctAnswers)
    IN  [earnedPoints |-> IF isCorrect THEN Num(q.score) ELSE Zero,
         isCorrect |-> isCorrect]

\* scoreStandardQuestion: all-or-nothing
scoreStandardQuestion(q, ua) ==
    LET isCorrect ==
            /\ Len(ua) = 1
            /\ Len(q.correctAnswers) = 1
            /\ ua[1] = q.correctAnswers[1]
    IN  [earnedPoints |-> IF isCorrect THEN Num(q.score) ELSE Zero,
         isCorrect |-> isCorrect]

\* the record scoreMultipleSelectQuestion returns
MultipleSelectScore(score, c, w, k, correctRatio, penaltyFactor, isCorrect) ==
    [earnedPoints |-> RMul(RMul(Num(score), correctRatio), penaltyFactor),
     isCorrect |-> isCorrect,
     partialCreditDetails |->
        [correctSelections |-> c,
         incorrectSelections |-> w,
         missedSelections |-> k - c,
         correctRatio |-> correctRatio,
         penaltyFactor |-> penaltyFactor]]

\* mutant of scoreMultipleSelectQuestion: the penalty factor is not clamped at 0
scoreMultipleSelectQuestion_NoClamp(q, ua) ==
    LET correct == ToSet(q.correctAnswers)
        c == Cardinality(ToSet(ua) \cap correct)
        w == Cardinality(ToSet(ua) \ correct)
        k == Cardinality(correct)
    IN  MultipleSelectScore(q.score, c, w, k,
            IF k > 0 THEN Rat(c, k) ELSE Zero,
            IF k > 0 THEN Rat(k - w, k) ELSE Zero,
            c = k /\ w = 0)

\* mutant of scoreMultipleSelectQuestion: isCorrect ignores incorrect selections
scoreMultipleSelectQuestion_IgnoreWrong(q, ua) ==
    LET correct == ToSet(q.correctAnswers)
        c == Cardinality(ToSet(ua) \cap correct)
        w == Cardinality(ToSet(ua) \ correct)
        k == Cardinality(correct)
    IN  MultipleSelectScore(q.score, c, w, k,
            IF k > 0 THEN Rat(c, k) ELSE Zero,
            IF k > 0 THEN RMax(Zero, Rat(k - w, k)) ELSE Zero,
            c = k)

\* mutant of scoreMultipleSelectQuestion: incorrect selections cost nothing
scoreMultipleSelectQuestion_NoPenalty(q, ua) ==
    LET correct == ToSet(q.correctAnswers)
        c == Cardinality(ToSet(ua) \cap correct)
        w == Cardinality(ToSet(ua) \ correct)
        k == Cardinality(correct)
    IN  MultipleSelectScore(q.score, c, w, k,
            IF k > 0 THEN Rat(c, k) ELSE Zero,
            IF k > 0 THEN Num(1) ELSE Zero,
            c = k /\ w = 0)

\* mutant of scoreMultipleSelectQuestion: isCorrect needs a positive score
scoreMultipleSelectQuestion_CorrectNeedsPoints(q, ua) ==
    LET correct == ToSet(q.correctAnswers)
        c == Cardinality(ToSet(ua) \cap correct)
        w == Cardinality(ToSet(ua) \ correct)
        k == Cardinality(correct)
    IN  MultipleSelectScore(q.score, c, w, k,
            IF k > 0 THEN Rat(c, k) ELSE Zero,
            IF k > 0 THEN RMax(Zero, Rat(k - w, k)) ELSE Zero,
            c = k /\ w = 0 /\ q.score > 0)

\* mutant of scoreMultipleSelectQuestion: the penalty is taken on the missed
\* selections instead of the incorrect ones
scoreMultipleSelectQuestion_PenaltyOnMissed(q, ua) ==
    LET correct == ToSet(q.correctAnswers)
        c == Cardinality(ToSet(ua) \cap correct)
        w == Cardinality(ToSet(ua) \ correct)
        k == Cardinality(correct)
    IN  MultipleSelectScore(q.score, c, w, k,
            IF k > 0 THEN Rat(c, k) ELSE Zero,
            IF k > 0 THEN RMax(Zero, Rat(k - (k - c), k)) ELSE Zero,
            c = k /\ w = 0)

\* scoreMultipleSelectQuestion: partial credit with a penalty
scoreMultipleSelectQuestion(q, ua) ==
    LET correctAnswers == ToSet(q.correctAnswers)
        userAnswerSet == ToSet(ua)
        correctSelections == Cardinality({a \in userAnswerSet : a \in correctAnswers})
        incorrectSelections == Cardinality({a \in userAnswerSet : a \notin correctAnswers})
        missedSelections == Cardinality(correctAnswers) - correctSelections
        totalCorrectAnswers == Cardinality(correctAnswers)
        correctRatio ==
            IF totalCorrectAnswers > 0
            THEN RDiv(Num(correctSelections), Num(totalCorrectAnswers))
            ELSE Zero
        penaltyFactor ==
            IF totalCorrectAnswers > 0
            THEN RMax(Zero, RSub(Num(1),
                     RDiv(Num(incorrectSelections), Num(totalCorrectAnswers))))
            ELSE Zero
        earnedPoints == RMul(RMul(Num(q.score), correctRatio), penaltyFactor)
        isCorrect == correctSelections = totalCorrectAnswers /\ incorrectSelections = 0
    IN  [earnedPoints |-> earnedPoints,
         isCorrect |-> isCorrect,
         partialCreditDetails |->
            [correctSelections |-> correctSelections,
             incorrectSelections |-> incorrectSelections,
             missedSelections |-> missedSelections,
             correctRatio |-> correctRatio,
             penaltyFactor |-> penaltyFactor]]

\* the QuestionResult scoreQuestion builds once validation has passed and the
\* type is one of the three known ones; partialCreditDetails is <<>> for
\* undefined and <<details>> otherwise
QuestionResultOf(q, ua) ==
    LET standard == q.type \in {"multipleChoice", "trueFalse"}
        s == scoreStandardQuestion(q, ua)
        m == scoreMultipleSelectQuestion(q, ua)
        earnedPoints == IF standard THEN s.earnedPoints ELSE m.earnedPoints
        isCorrect == IF standard THEN s.isCorrect ELSE m.isCorrect
        isPartialCredit ==
            IF standard THEN FALSE
            ELSE RGt(earnedPoints, Zero) /\ RLt(earnedPoints, Num(q.score))
        percentage ==
            IF q.score > 0
            THEN RMul(RDiv(earnedPoints, Num(q.score)), Num(100))
            ELSE Zero
    IN  [questionId |-> q.id,
         category |-> q.category,
         type |-> q.type,
         userAnswers |-> ua,
         correctAnswers |-> q.correctAnswers,
         earnedPoints |-> earnedPoints,
         maxPoints |-> q.score,
         percentage |-> percentage,
         isCorrect |-> isCorrect,
         isPartialCredit |-> isPartialCredit,
         partialCreditDetails |->
            IF standard THEN <<>> ELSE <<m.partialCreditDetails>>,
         weight |-> q.weight]

\* scoreQuestion: [error |-> message, result |-> <<>>] when it throws,
\* [error |-> "", result |-> <<QuestionResult>>] when it returns
scoreQuestion(q, ua) ==
    LET invalid == validateQuestionInput(q, ua) IN
    IF invalid # "" THEN [error |-> invalid, result |-> <<>>]
    ELSE IF q.type \notin QuestionTypes
        THEN [error |-> "Unknown question type", result |-> <<>>]
    ELSE [error |-> "", result |-> <<QuestionResultOf(q, ua)>>]

\* userAnswers[question.id] || []  (an array, even an empty one, is truthy)
AnswersFor(answerMap, id) == IF id \in DOMAIN answerMap THEN answerMap[id] ELSE <<>>

\* mutant of scoreQuestions: a question whose answers are invalid is skipped
RECURSIVE scoreQuestions_SkipInvalid(_, _)
scoreQuestions_SkipInvalid(questions, answerMap) ==
    IF questions = <<>> THEN [error |-> "", results |-> <<>>]
    ELSE LET r == scoreQuestion(Head(questions), AnswersFor(answerMap, Head(questions).id))
             rest == scoreQuestions_SkipInvalid(Tail(questions), answerMap)
         IN  [error |-> "", results |-> r.result \o rest.results]

\* mutant of scoreQuestions: no default for a question without an entry
RECURSIVE scoreQuestions_NoDefault(_, _)
scoreQuestions_NoDefault(questions, answerMap) ==
    IF questions = <<>> THEN [error |-> "", results |-> <<>>]
    ELSE LET q == Head(questions)
             r == IF q.id \in DOMAIN answerMap
                  THEN scoreQuestion(q, answerMap[q.id])
                  ELSE [error |-> "userAnswers is not iterable", result |-> <<>>]
             rest == scoreQuestions_NoDefault(Tail(questions), answerMap)
         IN  IF r.error # "" THEN [error |-> r.error, results |-> <<>>]
             ELSE IF rest.error # "" THEN rest
             ELSE [error |-> "", results |-> r.result \o rest.results]

\* scoreQuestions: questions.map(scoreQuestion); the first Error thrown ends
\* the map and no array is returned
RECURSIVE scoreQuestions(_, _)
scoreQuestions(questions, answerMap) ==
    IF questions = <<>> THEN [error |-> "", results |-> <<>>]
    ELSE LET r == scoreQuestion(Head(questions), AnswersFor(answerMap, Head(questions).id))
         IN  IF r.error # "" THEN [error |-> r.error, results |-> <<>>]
             ELSE LET rest == scoreQuestions(Tail(questions), answerMap)
                  IN  IF rest.error # "" THEN rest
                      ELSE [error |-> "", results |-> r.result \o rest.results]

\* results.reduce((sum, r) => sum + r[field], 0) for a field holding a rational
RECURSIVE SumRat(_, _)
SumRat(rs, field) ==
    IF rs = <<>> THEN Zero
    ELSE RAdd(SumRat(SubSeq(rs, 1, Len(rs) - 1), field), rs[Len(rs)][field])

\* the same for a field holding an integer
RECURSIVE SumInt(_, _)
SumInt(rs, field) ==
    IF rs = <<>> THEN 0
    ELSE SumInt(SubSeq(rs, 1, Len(rs) - 1), field) + rs[Len(rs)][field]

\* calculateTotalPoints
calculateTotalPoints(results) ==
    LET earnedPoints == SumRat(results, "earnedPoints")
        maxPoints == SumInt(results, "maxPoints")
    IN  [earnedPoints |-> earnedPoints,
         maxPoints |-> maxPoints,
         percentage |->
            IF maxPoints > 0
            THEN RMul(RDiv(earnedPoints, Num(maxPoints)), Num(100))
            ELSE Zero]

(***************************************************************************)
(* Tier mapper                                                             *)
(***************************************************************************)
\* mutant of getTierFromPercentage: the boundaries fall in the lower tier
getTierFromPercentage_Exclusive(percentage) ==
    IF RGt(percentage, Num(85)) THEN 5
    ELSE IF RGt(percentage, Num(70)) THEN 4
    ELSE IF RGt(percentage, Num(55)) THEN 3
    ELSE IF RGt(percentage, Num(40)) THEN 2
    ELSE 1

getTierFromPercentage(percentage) ==
    IF RGe(percentage, Num(85)) THEN 5
    ELSE IF RGe(percentage, Num(70)) THEN 4
    ELSE IF RGe(percentage, Num(55)) THEN 3
    ELSE IF RGe(percentage, Num(40)) THEN 2
    ELSE 1

\* TIER_DEFINITIONS[tier].rank
TierRanks == <<"Novice", "Beginner", "Intermediate", "Advanced", "Expert">>
getTierRank(tier) == TierRanks[tier]

getPerformanceClassification_Exclusive(percentage) ==
    IF RGt(percentage, Num(85)) THEN "exceptional"
    ELSE IF RGt(percentage, Num(75)) THEN "strength"
    ELSE IF RGt(percentage, Num(60)) THEN "adequate"
    ELSE IF RGt(percentage, Num(45)) THEN "weakness"
    ELSE "critical-weakness"

\* mutant of getPerformanceClassification: without the band 'weakness'
getPerformanceClassification_NoWeaknessBand(percentage) ==
    IF RGe(percentage, Num(85)) THEN "exceptional"
    ELSE IF RGe(percentage, Num(75)) THEN "strength"
    ELSE IF RGe(percentage, Num(60)) THEN "adequate"
    ELSE "critical-weakness"

\* PERFORMANCE_THRESHOLDS.*.min
getPerformanceClassification(percentage) ==
    IF RGe(percentage, Num(85)) THEN "exceptional"
    ELSE IF RGe(percentage, Num(75)) THEN "strength"
    ELSE IF RGe(percentage, Num(60)) THEN "adequate"
    ELSE IF RGe(percentage, Num(45)) THEN "weakness"
    ELSE "critical-weakness"

(***************************************************************************)
(* Category scorer                                                         *)
(***************************************************************************)
\* the category names, in the order of String.prototype.localeCompare
CategoryNames ==
    <<"Abstract Thinking", "Attention to Detail", "Logical Reasoning",
      "Mathematical Reasoning", "Pattern Recognition & Sequences",
      "Rule Application", "Spatial & Visual Reasoning",
      "Systematic Problem-Solving">>
NameRank(name) == CHOOSE i \in DOMAIN CategoryNames : CategoryNames[i] = name

\* CATEGORY_NAME_TO_CODE
CategoryCodes ==
    <<"abstract_thinking", "attention_to_detail", "logical_reasoning",
      "mathematical_reasoning", "pattern_recognition", "rule_application",
      "spatial_visual_reasoning", "systematic_problem_solving">>
getCategoryCode(name) == CategoryCodes[NameRank(name)]

\* groupByCategory: the Map's entries, in insertion order
RECURSIVE groupByCategory(_)
groupByCategory(questionResultList) ==
    IF questionResultList = <<>> THEN <<>>
    ELSE LET n == Len(questionResultList)
             categoryMap == groupByCategory(SubSeq(questionResultList, 1, n - 1))
             result == questionResultList[n]
             at == {i \in DOMAIN categoryMap : categoryMap[i].category = result.category}
         IN  IF at = {}
             THEN Append(categoryMap, [category |-> result.category, results |-> <<result>>])
             ELSE [i \in DOMAIN categoryMap |->
                     IF i \in at
                     THEN [categoryMap[i] EXCEPT !.results = Append(@, result)]
                     ELSE categoryMap[i]]

\* the fields of a CategoryResult that scoreCategoryFromResults derives from
\* the category's percentage and question results
CategoryResultOf(category, rs, earnedPoints, maxPoints, percentage) ==
    LET tier == getTierFromPercentage(percentage) IN
    [name |-> category,
     code |-> getCategoryCode(category),
     earnedPoints |-> earnedPoints,
     maxPoints |-> maxPoints,
     percentage |-> percentage,
     totalWeight |-> SumInt(rs, "weight"),
     weightedContribution |-> Zero,
     tier |-> tier,
     rank |-> getTierRank(tier),
     classification |-> getPerformanceClassification(percentage),
     questionCount |-> Len(rs),
     correctCount |-> Cardinality({i \in DOMAIN rs : rs[i].isCorrect}),
     partialCreditCount |->
        Cardinality({i \in DOMAIN rs : ~rs[i].isCorrect /\ rs[i].isPartialCredit}),
     incorrectCount |->
        Cardinality({i \in DOMAIN rs : ~rs[i].isCorrect /\ ~rs[i].isPartialCredit}),
     questions |-> [i \in DOMAIN rs |-> rs[i].questionId]]

\* mutant of scoreCategoryFromResults: the percentage is the mean of the
\* questions' percentages
scoreCategoryFromResults_MeanOfQuestions(category, rs) ==
    CategoryResultOf(category, rs, SumRat(rs, "earnedPoints"), SumInt(rs, "maxPoints"),
        IF SumInt(rs, "maxPoints") > 0
        THEN RDiv(SumRat(rs, "percentage"), Num(Len(rs)))
        ELSE Zero)

\* mutant of scoreCategoryFromResults: every question that is not fully
\* correct counts as incorrect, the partial-credit ones included
scoreCategoryFromResults_PartialIsIncorrect(category, rs) ==
    [CategoryResultOf(category, rs, SumRat(rs, "earnedPoints"), SumInt(rs, "maxPoints"),
        IF SumInt(rs, "maxPoints") > 0
        THEN RMul(RDiv(SumRat(rs, "earnedPoints"), Num(SumInt(rs, "maxPoints"))), Num(100))
        ELSE Zero)
     EXCEPT !.incorrectCount = Cardinality({i \in DOMAIN rs : ~rs[i].isCorrect})]

scoreCategoryFromResults(category, rs) ==
    LET earnedPoints == SumRat(rs, "earnedPoints")
        maxPoints == SumInt(rs, "maxPoints")
        percentage ==
            IF maxPoints > 0
            THEN RMul(RDiv(earnedPoints, Num(maxPoints)), Num(100))
            ELSE Zero
    IN  CategoryResultOf(category, rs, earnedPoints, maxPoints, percentage)

\* categoryResults.sort((a, b) => a.name.localeCompare(b.name)): a stable sort
RECURSIVE SortByName(_)
SortByName(cats) ==
    IF cats = <<>> THEN <<>>
    ELSE LET n == Len(cats)
             sorted == SortByName(SubSeq(cats, 1, n - 1))
             last == cats[n]
             before == {i \in DOMAIN sorted : NameRank(sorted[i].name) <= NameRank(last.name)}
             k == Cardinality(before)
         IN  SubSeq(sorted, 1, k) \o <<last>> \o SubSeq(sorted, k + 1, n - 1)

scoreCategories(questionResultList) ==
    LET categoryMap == groupByCategory(questionResultList) IN
    SortByName([i \in DOMAIN categoryMap |->
        scoreCategoryFromResults(categoryMap[i].category, categoryMap[i].results)])

\* mutant of calculateWeightedContributions: the weighted score over the
\* number of categories
calculateWeightedContributions_OverCount(cats) ==
    IF SumInt(cats, "totalWeight") = 0 THEN cats
    ELSE [i \in DOMAIN cats |->
            [cats[i] EXCEPT !.weightedContribution =
                RDiv(RMul(cats[i].percentage, Num(cats[i].totalWeight)),
                     Num(Len(cats)))]]

calculateWeightedContributions(cats) ==
    LET totalWeight == SumInt(cats, "totalWeight") IN
    IF totalWeight = 0 THEN cats
    ELSE [i \in DOMAIN cats |->
            [cats[i] EXCEPT !.weightedContribution =
                RDiv(RMul(cats[i].percentage, Num(cats[i].totalWeight)),
                     Num(totalWeight))]]

\* filterByClassification
filterByClassification(cats, classification) ==
    LET Keep(c) == c.classification = classification IN SelectSeq(cats, Keep)

(***************************************************************************)
(* Overall scorer                                                          *)
(***************************************************************************)
\* the loop of calculateOverallScore over the first n categories:
\* <<weightedSum, totalWeight>>
RECURSIVE WeightedTotals(_, _)
WeightedTotals(cats, n) ==
    IF n = 0 THEN <<Zero, 0>>
    ELSE LET acc == WeightedTotals(cats, n - 1)
             weightedScore == RMul(cats[n].percentage, Num(cats[n].totalWeight))
         IN  <<RAdd(acc[1], weightedScore), acc[2] + cats[n].totalWeight>>

\* mutant of calculateOverallScore: the weighted sum over the number of
\* categories
calculateOverallScore_OverCount(cats) ==
    IF Len(cats) = 0 THEN Zero
    ELSE LET totals == WeightedTotals(cats, Len(cats)) IN
         IF totals[2] = 0 THEN Zero
         ELSE RDiv(totals[1], Num(Len(cats)))

\* mutant of calculateOverallScore: the plain mean of the percentages
calculateOverallScore_PlainMean(cats) ==
    IF Len(cats) = 0 THEN Zero
    ELSE IF SumInt(cats, "totalWeight") = 0 THEN Zero
    ELSE RDiv(SumRat(cats, "percentage"), Num(Len(cats)))

calculateOverallScore(cats) ==
    IF Len(cats) = 0 THEN Zero
    ELSE LET totals == WeightedTotals(cats, Len(cats)) IN
         IF totals[2] = 0 THEN Zero
         ELSE RDiv(totals[1], Num(totals[2]))

calculateOverallResult(cats, questionResultList) ==
    LET total == calculateTotalPoints(questionResultList)
        score == calculateOverallScore(cats)
        tier == getTierFromPercentage(score)
    IN  [score |-> score,
         maxPossible |-> total.maxPoints,
         earnedPoints |-> total.earnedPoints,
         percentage |-> score,
         tier |-> tier,
         rank |-> getTierRank(tier)]

(***************************************************************************)
(* Performance analyzer                                                    *)
(***************************************************************************)
\* Math.sqrt is kept exact: the non-negative real x is represented by its
\* square, a rational; Sqrt(r) is the root of r.
Sqrt(r) == [squared |-> r]
\* x / k and x * k for a rational k > 0
SurdOver(x, k) == [squared |-> RDiv(x.squared, RMul(k, k))]
SurdTimes(x, k) == [squared |-> RMul(x.squared, RMul(k, k))]
\* the number 100 - x for a root x
HundredMinus(x) == [hundredMinus |-> x]
\* the number 0 in that form
ScoreZero == HundredMinus(Sqrt(Num(100 * 100)))
\* Math.max(0, Math.min(100, s)) for s = 100 - x: x >= 0 makes s <= 100
ClampScore(s) == IF RGe(s.hundredMinus.squared, Num(100 * 100)) THEN ScoreZero ELSE s
\* s > k and s < k for s = 100 - x and an integer k of 0..100
ScoreGt(s, k) == RLt(s.hundredMinus.squared, Num((100 - k) * (100 - k)))
ScoreLt(s, k) == RGt(s.hundredMinus.squared, Num((100 - k) * (100 - k)))

RMin(x, y) == IF RLt(y, x) THEN y ELSE x
RECURSIVE MaxOf(_)
MaxOf(scores) ==
    IF Len(scores) = 1 THEN scores[1]
    ELSE RMax(MaxOf(SubSeq(scores, 1, Len(scores) - 1)), scores[Len(scores)])
RECURSIVE MinOf(_)
MinOf(scores) ==
    IF Len(scores) = 1 THEN scores[1]
    ELSE RMin(MinOf(SubSeq(scores, 1, Len(scores) - 1)), scores[Len(scores)])
RECURSIVE SumOfScores(_)
SumOfScores(scores) ==
    IF scores = <<>> THEN Zero
    ELSE RAdd(SumOfScores(SubSeq(scores, 1, Len(scores) - 1)), scores[Len(scores)])

\* the summary classifyCategories pushes for a category
CategorySummary(category) ==
    [name |-> category.name, percentage |-> category.percentage,
     tier |-> category.tier, questionCount |-> category.questionCount]

\* Array.prototype.sort with (a, b) => b.percentage - a.percentage (stable)
RECURSIVE SortByPercentageDescending(_)
SortByPercentageDescending(summaries) ==
    IF summaries = <<>> THEN <<>>
    ELSE LET n == Len(summaries)
             sorted == SortByPercentageDescending(SubSeq(summaries, 1, n - 1))
             last == summaries[n]
             before == {i \in DOMAIN sorted : RGe(sorted[i].percentage, last.percentage)}
             k == Cardinality(before)
         IN  SubSeq(sorted, 1, k) \o <<last>> \o SubSeq(sorted, k + 1, n - 1)

classifyCategories_Unsorted(cats) ==
    LET summaries == [i \in DOMAIN cats |-> CategorySummary(cats[i])]
        Band(c) == SelectSeq(summaries,
                       LAMBDA s : getPerformanceClassification(s.percentage) = c)
    IN  [exceptional |-> Band("exceptional"),
         strengths |-> Band("strength"),
         adequate |-> Band("adequate"),
         weaknesses |-> Band("weakness"),
         criticalWeaknesses |-> Band("critical-weakness")]

classifyCategories(cats) ==
    LET summaries == [i \in DOMAIN cats |-> CategorySummary(cats[i])]
        Band(c) == SortByPercentageDescending(SelectSeq(summaries,
                       LAMBDA s : getPerformanceClassification(s.percentage) = c))
    IN  [exceptional |-> Band("exceptional"),
         strengths |-> Band("strength"),
         adequate |-> Band("adequate"),
         weaknesses |-> Band("weakness"),
         criticalWeaknesses |-> Band("critical-weakness")]

ConsistencyMetrics(mean, standardDeviation, coefficientOfVariation, range, consistencyScore) ==
    [mean |-> mean, standardDeviation |-> standardDeviation,
     coefficientOfVariation |-> coefficientOfVariation, range |-> range,
     consistencyScore |-> consistencyScore]

calculateConsistency_NoDoubling(cats) ==
    IF Len(cats) = 0
    THEN ConsistencyMetrics(Zero, Sqrt(Zero), Sqrt(Zero), Zero, ScoreZero)
    ELSE LET scores == [i \in DOMAIN cats |-> cats[i].percentage]
             mean == RDiv(SumOfScores(scores), Num(Len(scores)))
             squaredDiffs == [i \in DOMAIN scores |->
                                 RMul(RSub(scores[i], mean), RSub(scores[i], mean))]
             variance == RDiv(SumOfScores(squaredDiffs), Num(Len(scores)))
             standardDeviation == Sqrt(variance)
             coefficientOfVariation ==
                 IF mean # Zero
                 THEN SurdTimes(SurdOver(standardDeviation, mean), Num(100))
                 ELSE Sqrt(Zero)
         IN  ConsistencyMetrics(mean, standardDeviation, coefficientOfVariation,
                                RSub(MaxOf(scores), MinOf(scores)),
                                ClampScore(HundredMinus(coefficientOfVariation)))

calculateConsistency(cats) ==
    IF Len(cats) = 0
    THEN ConsistencyMetrics(Zero, Sqrt(Zero), Sqrt(Zero), Zero, ScoreZero)
    ELSE LET scores == [i \in DOMAIN cats |-> cats[i].percentage]
             mean == RDiv(SumOfScores(scores), Num(Len(scores)))
             squaredDiffs == [i \in DOMAIN scores |->
                                 RMul(RSub(scores[i], mean), RSub(scores[i], mean))]
             variance == RDiv(SumOfScores(squaredDiffs), Num(Len(scores)))
             standardDeviation == Sqrt(variance)
             coefficientOfVariation ==
                 IF mean # Zero
                 THEN SurdTimes(SurdOver(standardDeviation, mean), Num(100))
                 ELSE Sqrt(Zero)
         IN  ConsistencyMetrics(mean, standardDeviation, coefficientOfVariation,
                                RSub(MaxOf(scores), MinOf(scores)),
                                ClampScore(HundredMinus(
                                    SurdTimes(coefficientOfVariation, Num(2)))))

determineImprovementPotential_LaterRuleFirst(overallPercentage, consistencyScore) ==
    IF RLt(overallPercentage, Num(70)) \/ ScoreLt(consistencyScore, 50) THEN "high"
    ELSE IF RGe(overallPercentage, Num(85)) THEN "low"
    ELSE IF RLt(overallPercentage, Num(60)) /\ ScoreGt(consistencyScore, 70) THEN "high"
    ELSE "medium"

\* mutant of determineImprovementPotential: a low but consistent score has
\* medium potential
determineImprovementPotential_ConsistentLowIsMedium(overallPercentage, consistencyScore) ==
    IF RGe(overallPercentage, Num(85)) THEN "low"
    ELSE IF RLt(overallPercentage, Num(60)) /\ ScoreGt(consistencyScore, 70) THEN "medium"
    ELSE IF RLt(overallPercentage, Num(70)) \/ ScoreLt(consistencyScore, 50) THEN "high"
    ELSE "medium"

determineImprovementPotential(overallPercentage, consistencyScore) ==
    IF RGe(overallPercentage, Num(85)) THEN "low"
    ELSE IF RLt(overallPercentage, Num(60)) /\ ScoreGt(consistencyScore, 70) THEN "high"
    ELSE IF RLt(overallPercentage, Num(70)) \/ ScoreLt(consistencyScore, 50) THEN "high"
    ELSE "medium"

analyzePerformance(cats, overallResult) ==
    LET classified == classifyCategories(cats)
        consistency == calculateConsistency(cats)
    IN  [exceptional |-> classified.exceptional,
         strengths |-> classified.strengths,
         adequate |-> classified.adequate,
         weaknesses |-> classified.weaknesses,
         criticalWeaknesses |-> classified.criticalWeaknesses,
         consistencyScore |-> consistency.consistencyScore,
         improvementPotential |->
             determineImprovementPotential(overallResult.percentage,
                                           consistency.consistencyScore)]

\* the profile identifyProfile returns; description, characteristics and
\* approach are fixed texts of the branch taken
identifyProfile(overallResult, performance) ==
    LET score == overallResult.percentage
        exceptional == Len(performance.exceptional)
        weaknesses == Len(performance.weaknesses) + Len(performance.criticalWeaknesses)
        variance == exceptional + weaknesses
    IN  IF RGe(score, Num(85)) /\ exceptional >= 5 THEN "high-performer"
        ELSE IF RGe(score, Num(70)) /\ RLt(score, Num(85)) /\ variance <= 2 THEN "balanced"
        ELSE IF variance >= 4 THEN "specialist"
        ELSE IF RGe(score, Num(55)) /\ RLt(score, Num(70)) THEN "developing"
        ELSE "early-stage"

(***************************************************************************)
(* Career recommender.  careerPaths and learningResources are computed     *)
(* from data/career-paths.json and data/learning-resources.json, which are *)
(* not part of the sources: the model leaves these two fields out.         *)
(***************************************************************************)
getReadinessLevel(percentage) ==
    IF RGe(percentage, Num(85)) THEN "high"
    ELSE IF RGe(percentage, Num(70)) THEN "medium"
    ELSE "low"

FocusArea(summary, priority, targetScore) ==
    [category |-> summary.name, priority |-> priority,
     currentScore |-> summary.percentage, targetScore |-> targetScore]

\* the three loops push in the order critical, high, medium, so the stable
\* sort by priority that follows changes nothing
identifyFocusAreas(cats, performance) ==
    [i \in DOMAIN performance.criticalWeaknesses |->
        FocusArea(performance.criticalWeaknesses[i], "critical", 60)]
    \o [i \in DOMAIN performance.weaknesses |->
        FocusArea(performance.weaknesses[i], "high", 75)]
    \o [i \in DOMAIN SelectSeq(performance.adequate, LAMBDA s : RGe(s.percentage, Num(65))) |->
        FocusArea(SelectSeq(performance.adequate, LAMBDA s : RGe(s.percentage, Num(65)))[i],
                  "medium", 85)]

generateNextSteps(overallResult, performance, focusAreas) ==
    (IF overallResult.tier >= 4
        THEN <<"Begin practical coding training immediately",
               "Consider accelerated learning track or bootcamp",
               "Build portfolio projects showcasing your strengths">>
     ELSE IF overallResult.tier = 3
        THEN <<"Start structured development training program",
               "Focus on practical application with guided exercises",
               "Join peer learning groups or study communities">>
     ELSE <<"Complete comprehensive foundational training",
            "Work with mentor or instructor for guidance",
            "Practice daily with structured curriculum">>)
    \o (IF Len(focusAreas) > 0
           THEN <<"Priority: Improve " \o focusAreas[1].category>> ELSE <<>>)
    \o (IF Len(performance.exceptional) >= 2
           THEN <<"Consider specialized tracks leveraging your "
                  \o performance.exceptional[1].name \o " and "
                  \o performance.exceptional[2].name \o " skills">>
           ELSE <<>>)
    \o (IF overallResult.tier <= 3
           THEN <<"Seek mentorship from experienced developers">>
           ELSE <<"Pair with senior mentor for rapid growth and industry insights">>)

\* assessment, timeline and recommendedRoles are fixed texts of the
\* readiness level
assessRoleSuitability(overallResult, performance) ==
    LET strong == performance.exceptional \o performance.strengths
        key == SubSeq(strong, 1, IF Len(strong) < 3 THEN Len(strong) ELSE 3)
        weak == performance.weaknesses \o performance.criticalWeaknesses
    IN  [readinessLevel |-> getReadinessLevel(overallResult.percentage),
         keyStrengths |-> [i \in DOMAIN key |-> key[i].name],
         areasNeedingDevelopment |-> [i \in DOMAIN weak |-> weak[i].name]]

recommend(cats, overallResult, performance) ==
    LET focusAreas == identifyFocusAreas(cats, performance) IN
    [focusAreas |-> focusAreas,
     nextSteps |-> generateNextSteps(overallResult, performance, focusAreas),
     roleSuitability |-> assessRoleSuitability(overallResult, performance)]

(***************************************************************************)
(* Overall scorer: metadata, analysis and recommendations of a result      *)
(***************************************************************************)
DefaultOptions ==
    [includeAnalysis |-> TRUE, includeRecommendations |-> TRUE, version |-> "1.0"]

\* the argument options = {}
NoOptions == [includeAnalysis |-> <<>>, includeRecommendations |-> <<>>, version |-> <<>>]

OptionsOf_AnalysisOffByDefault(given) ==
    [includeAnalysis |->
        IF given.includeAnalysis = <<>> THEN FALSE ELSE given.includeAnalysis[1],
     includeRecommendations |->
        IF given.includeRecommendations = <<>> THEN DefaultOptions.includeRecommendations
        ELSE given.includeRecommendations[1],
     version |-> IF given.version = <<>> THEN DefaultOptions.version ELSE given.version[1]]

\* the destructuring of the options with their defaults
OptionsOf(given) ==
    [includeAnalysis |->
        IF given.includeAnalysis = <<>> THEN DefaultOptions.includeAnalysis
        ELSE given.includeAnalysis[1],
     includeRecommendations |->
        IF given.includeRecommendations = <<>> THEN DefaultOptions.includeRecommendations
        ELSE given.includeRecommendations[1],
     version |-> IF given.version = <<>> THEN DefaultOptions.version ELSE given.version[1]]

\* the inputs of the model carry no time map, so timeSpent is 0
calculateMetadata(assessmentInput, questionResultList, version) ==
    [totalQuestions |-> Len(assessmentInput.questions),
     questionsAnswered |-> Cardinality(DOMAIN assessmentInput.userAnswers),
     timeSpent |-> 0,
     version |-> version]

createEmptyAnalysis ==
    [exceptional |-> <<>>, strengths |-> <<>>, adequate |-> <<>>,
     weaknesses |-> <<>>, criticalWeaknesses |-> <<>>,
     consistencyScore |-> ScoreZero, improvementPotential |-> "medium"]

createEmptyRecommendations ==
    [focusAreas |-> <<>>, nextSteps |-> <<>>,
     roleSuitability |-> [readinessLevel |-> "medium"]]

\* The analyzer module has no load-time effects and analyzePerformance
\* throws on no CategoryResult[], so the catch branch is not taken.
generateAnalysis(cats, overallResult) == analyzePerformance(cats, overallResult)

\* The recommender module reads and parses its two data files when it is
\* loaded: if that throws, the import rejects and the catch branch returns
\* the empty structure.
generateRecommendations(cats, overallResult, performance, loads) ==
    IF loads THEN recommend(cats, overallResult, performance)
    ELSE createEmptyRecommendations

(***************************************************************************)
(* Overall scorer: validation of the input                                 *)
(***************************************************************************)
\* the elements of a sequence in the order of their first occurrence, as
\* new Set(...) iterates them
RECURSIVE Distinct(_)
Distinct(s) ==
    IF s = <<>> THEN <<>>
    ELSE LET front == Distinct(SubSeq(s, 1, Len(s) - 1))
         IN  IF s[Len(s)] \in ToSet(front) THEN front ELSE Append(front, s[Len(s)])

\* errors pushed for the question ids without an entry in the answer map
MissingAnswerErrors(assessmentInput) ==
    LET questionIds ==
            Distinct([i \in DOMAIN assessmentInput.questions |->
                         assessmentInput.questions[i].id])
        missing == SelectSeq(questionIds,
                             LAMBDA id : id \notin DOMAIN assessmentInput.userAnswers)
    IN  [i \in DOMAIN missing |-> "Missing answer for question: " \o missing[i]]

validateAssessmentInput_NoMissingAnswers(assessmentInput) ==
    LET errors ==
            (IF assessmentInput.assessmentId = ""
                THEN <<"Assessment ID is required">> ELSE <<>>)
            \o (IF assessmentInput.userId = "" THEN <<"User ID is required">> ELSE <<>>)
            \o (IF Len(assessmentInput.questions) = 0
                   THEN <<"At least one question is required">> ELSE <<>>)
            \o (IF ~assessmentInput.hasUserAnswers
                   THEN <<"User answers are required">> ELSE <<>>)
    IN  [valid |-> Len(errors) = 0, errors |-> errors]

\* hasUserAnswers tells whether input.userAnswers is given (not undefined or
\* null); the question list is always given
validateAssessmentInput(assessmentInput) ==
    LET errors ==
            (IF assessmentInput.assessmentId = ""
                THEN <<"Assessment ID is required">> ELSE <<>>)
            \o (IF assessmentInput.userId = "" THEN <<"User ID is required">> ELSE <<>>)
            \o (IF Len(assessmentInput.questions) = 0
                   THEN <<"At least one question is required">> ELSE <<>>)
            \o (IF ~assessmentInput.hasUserAnswers
                   THEN <<"User answers are required">> ELSE <<>>)
            \o (IF assessmentInput.hasUserAnswers
                   THEN MissingAnswerErrors(assessmentInput) ELSE <<>>)
    IN  [valid |-> Len(errors) = 0, errors |-> errors]

(***************************************************************************)
(* Values of the variables a specification does not use                    *)
(***************************************************************************)
QuestionIdle ==
    /\ question = <<>> /\ userAnswers = <<>> /\ questionResult = <<>>
    /\ questionError = "" /\ qpc = "idle"
AssessmentIdle ==
    /\ input = <<>> /\ options = <<>> /\ recommenderLoads = FALSE
    /\ pc = "idle" /\ validation = <<>> /\ questionResults = <<>>
    /\ categoryResults = <<>> /\ overall = <<>> /\ metadata = <<>>
    /\ analysis = <<>> /\ recommendations = <<>> /\ assessmentError = ""
CategoryIdle ==
    /\ categoryList = <<>> /\ lastCall = "idle" /\ lastInput = <<>>
    /\ overallScore = <<>> /\ halvedScore = <<>>
TierIdle ==
    /\ percentages = <<>> /\ tiers = <<>> /\ classifications = <<>>
AnalysisIdle ==
    /\ analysisCategories = <<>> /\ analysisOverall = <<>>
    /\ performanceAnalysis = <<>> /\ consistencyMetrics = <<>> /\ profile = <<>>

(***************************************************************************)
(* Specification SpecQuestion: one call of scoreQuestion                   *)
(***************************************************************************)
Scores == {-1, 0, 15}
Options(n) == [i \in 1..n |-> i - 1]

\* Questions have 0..MaxOptions options and the indices of correctAnswers
\* range over -1..n, so that both out-of-range sides occur.  The scorer reads
\* correctAnswers through its length, its set of elements and (when the
\* length is 1) its first element, so the lists are taken in sorted order.
CorrectAnswerLists(n) == {x \in SeqsUpTo(-1..n, MaxCorrect) : NonDecreasing(x)}

QuestionInput(t, n, c, s) ==
    [id |-> "q1", type |-> t, category |-> "Logical Reasoning",
     answers |-> Options(n), correctAnswers |-> c, score |-> s, weight |-> 1]

\* Submissions for a question with n options: every first element, every
\* length up to MaxSubmitted and every multiset of further elements (the
\* scorer reads a submission through its length, its first element and its
\* set of elements)
Submissions(n) ==
    {x \in SeqsUpTo(-1..n, MaxSubmitted) : x = <<>> \/ NonDecreasing(Tail(x))}

InitQuestion ==
    /\ \E t \in QuestionTypes, n \in 0..MaxOptions, s \in Scores :
        \E c \in CorrectAnswerLists(n), ua \in Submissions(n) :
            /\ question = QuestionInput(t, n, c, s)
            /\ userAnswers = ua
    /\ questionResult = <<>>
    /\ questionError = ""
    /\ qpc = "call"
    /\ AssessmentIdle /\ CategoryIdle /\ TierIdle /\ AnalysisIdle

ScoreQuestion ==
    /\ qpc = "call"
    /\ LET r == scoreQuestion(question, userAnswers) IN
        /\ questionResult' = r.result
        /\ questionError' = r.error
        /\ qpc' = IF r.error = "" THEN "returned" ELSE "threw"
    /\ UNCHANGED <<question, userAnswers, assessmentVars, categoryVars, tierVars,
                   analysisVars>>

NextQuestion == ScoreQuestion

SpecQuestion == InitQuestion /\ [][NextQuestion]_vars

(***************************************************************************)
(* Claims on scoreQuestion (checked under SpecQuestion)                    *)
(***************************************************************************)
\* the quantities the claims speak of, taken from the arguments of the call
CorrectSet == ToSet(question.correctAnswers)
SubmittedSet == ToSet(userAnswers)
NumCorrect == Cardinality(CorrectSet)
CorrectSelected == Cardinality(SubmittedSet \cap CorrectSet)
IncorrectSelected == Cardinality(SubmittedSet \ CorrectSet)
Returned(t) == qpc = "returned" /\ question.type = t
Earned == questionResult[1].earnedPoints

\* C1: a multipleSelect question that passes validation, with k distinct
\* correct indices and base score S, earns S * (c/k) * max(0, 1 - w/k) for a
\* submission with c distinct correct and w distinct incorrect indices; for
\* k = 2 and S = 15 the pairs (2,0), (1,0), (2,1), (1,1), (0,2) earn 15, 7.5,
\* 7.5, 3.75 and 0.
C1_MultipleSelectFormula ==
    Returned("multipleSelect") =>
        /\ Earned[1] * NumCorrect * NumCorrect =
             Earned[2] * question.score * CorrectSelected *
                (IF NumCorrect - IncorrectSelected > 0
                 THEN NumCorrect - IncorrectSelected ELSE 0)
        /\ (NumCorrect = 2 /\ question.score = 15) =>
             /\ (CorrectSelected = 2 /\ IncorrectSelected = 0) => Earned = <<15, 1>>
             /\ (CorrectSelected = 1 /\ IncorrectSelected = 0) => Earned = <<15, 2>>
             /\ (CorrectSelected = 2 /\ IncorrectSelected = 1) => Earned = <<15, 2>>
             /\ (CorrectSelected = 1 /\ IncorrectSelected = 1) => Earned = <<15, 4>>
             /\ (CorrectSelected = 0 /\ IncorrectSelected = 2) => Earned = <<0, 1>>

C1_Witness ==
    /\ Returned("multipleSelect") /\ NumCorrect = 2 /\ question.score = 15
    /\ CorrectSelected = 1 /\ IncorrectSelected = 1 /\ Earned = <<15, 4>>

\* C2: a multipleChoice or trueFalse question that passes validation earns
\* the base score when the submission is exactly one index equal to the
\* correct index and 0 for every other submission, and is never flagged as
\* partial credit.
C2_StandardAllOrNothing ==
    (Returned("multipleChoice") \/ Returned("trueFalse")) =>
        LET exact == Len(userAnswers) = 1 /\ userAnswers[1] \in CorrectSet IN
        /\ NumCorrect = 1
        /\ exact => Earned = <<question.score, 1>>
        /\ ~exact => Earned = <<0, 1>>
        /\ questionResult[1].isPartialCredit = FALSE

C2_Witness ==
    /\ Returned("multipleChoice") /\ Len(question.answers) = MaxOptions
    /\ userAnswers = <<2, 2>> /\ question.correctAnswers = <<2>>
    /\ question.score = 15 /\ Earned = <<0, 1>>

\* C3: a multipleSelect result is flagged correct exactly when the distinct
\* correct selections are the whole correct set and nothing incorrect is
\* selected, and flagged partial credit exactly when 0 < earnedPoints < score.
C3_MultipleSelectFlags ==
    Returned("multipleSelect") =>
        /\ questionResult[1].isCorrect <=> (CorrectSelected = NumCorrect /\ IncorrectSelected = 0)
        /\ questionResult[1].isPartialCredit <=>
             (Earned[1] > 0 /\ Earned[1] < question.score * Earned[2])

C3_Witness ==
    /\ Returned("multipleSelect") /\ CorrectSelected = NumCorrect /\ IncorrectSelected = 1 /\ NumCorrect = 2
    /\ ~questionResult[1].isCorrect /\ questionResult[1].isPartialCredit

\* C4: scoreQuestion throws and returns no result when the correct-answer
\* list is empty, the score is negative, there are no options, a submitted or
\* correct index is outside [0, number of options), a trueFalse question has
\* not exactly 2 options or not exactly 1 correct index, a multipleChoice
\* question has not exactly 1 correct index, or a multipleSelect question has
\* fewer than 2 options.
OutOfRange(s) == \E i \in DOMAIN s : ~(0 <= s[i] /\ s[i] < Len(question.answers))
Malformed ==
    \/ question.correctAnswers = <<>>
    \/ question.score < 0
    \/ question.answers = <<>>
    \/ OutOfRange(userAnswers)
    \/ OutOfRange(question.correctAnswers)
    \/ question.type = "trueFalse" /\ Len(question.answers) # 2
    \/ question.type = "trueFalse" /\ Len(question.correctAnswers) # 1
    \/ question.type = "multipleChoice" /\ Len(question.correctAnswers) # 1
    \/ question.type = "multipleSelect" /\ Len(question.answers) < 2

C4_MalformedQuestionThrows ==
    (qpc \in {"returned", "threw"} /\ Malformed) =>
        qpc = "threw" /\ questionResult = <<>> /\ questionError # ""

C4_Witness ==
    /\ qpc = "threw" /\ question.type = "multipleSelect"
    /\ Len(question.answers) = 3 /\ question.correctAnswers = <<0, 1>>
    /\ question.score = 15 /\ userAnswers = <<1, 3>>

\* C23: grading depends only on the set of submitted indices: for every
\* question type, a submission with the same set of in-range indices as the
\* graded one (repeated or reordered indices) receives the same earnedPoints,
\* isCorrect and isPartialCredit.
SameSetSubmissions ==
    {ua \in Submissions(Len(question.answers)) : ToSet(ua) = SubmittedSet}
C23_GradingBySet ==
    qpc = "returned" =>
        \A ua \in SameSetSubmissions :
            LET r == scoreQuestion(question, ua) IN
            /\ r.error = ""
            /\ r.result[1].earnedPoints = Earned
            /\ r.result[1].isCorrect = questionResult[1].isCorrect
            /\ r.result[1].isPartialCredit = questionResult[1].isPartialCredit

\* C24: a multipleSelect question with base score 0 that is answered with
\* exactly its correct set is flagged neither correct nor partial credit.
ZeroScoreExact ==
    Returned("multipleSelect") /\ question.score = 0 /\ SubmittedSet = CorrectSet
C24_ZeroScoreNeitherFlag ==
    ZeroScoreExact =>
        questionResult[1].isCorrect = FALSE /\ questionResult[1].isPartialCredit = FALSE

\* C24, amended: a multipleSelect question with base score 0 that is answered
\* with exactly its correct set is flagged correct and not partial credit,
\* with 0 points and the percentage 0.
C24_ZeroScoreIsCorrect ==
    ZeroScoreExact =>
        /\ questionResult[1].isCorrect = TRUE
        /\ questionResult[1].isPartialCredit = FALSE
        /\ Earned = Zero /\ questionResult[1].percentage = Zero

C24_Witness ==
    /\ ZeroScoreExact /\ NumCorrect = 2 /\ Len(userAnswers) = 3
    /\ questionResult[1].isCorrect

\* C27: for a valid multipleSelect question, adding one more incorrect index
\* to a submission never increases earnedPoints and adding one more correct
\* index never decreases them; earnedPoints stays within [0, score] and
\* reaches a positive score only for the submission that is exactly the
\* correct set.
Unselected == {a \in ToSet(question.answers) : a \notin SubmittedSet}
EarnedWith(a) == scoreQuestion(question, Append(userAnswers, a)).result[1].earnedPoints
C27_MultipleSelectMonotone ==
    Returned("multipleSelect") =>
        /\ \A a \in Unselected \ CorrectSet : RLe(EarnedWith(a), Earned)
        /\ \A a \in Unselected \cap CorrectSet : RGe(EarnedWith(a), Earned)
        /\ RLe(Zero, Earned) /\ RLe(Earned, Num(question.score))
        /\ question.score > 0 =>
             (Earned = Num(question.score) <=> SubmittedSet = CorrectSet)

C27_Witness ==
    /\ Returned("multipleSelect") /\ question.score = 15
    /\ NumCorrect = 2 /\ CorrectSelected = 1 /\ IncorrectSelected = 1
    /\ Earned = <<15, 4>>
    /\ \E a \in Unselected \ CorrectSet : EarnedWith(a) = Zero
    /\ \E a \in Unselected \cap CorrectSet : EarnedWith(a) = <<15, 2>>

(***************************************************************************)
(* Specification Spec: one run of scoreAssessment                          *)
(***************************************************************************)
MaxQuestions == 3   \* questions of an assessment

\* the questions an assessment is drawn from (the id is given by the position)
QuestionBank ==
    {[type |-> "multipleChoice", category |-> "Logical Reasoning",
      answers |-> Options(4), correctAnswers |-> <<1>>, score |-> 10, weight |-> 3],
     [type |-> "multipleSelect", category |-> "Abstract Thinking",
      answers |-> Options(4), correctAnswers |-> <<0, 1>>, score |-> 15, weight |-> 2],
     [type |-> "trueFalse", category |-> "Logical Reasoning",
      answers |-> Options(2), correctAnswers |-> <<1>>, score |-> 5, weight |-> 1],
     [type |-> "multipleSelect", category |-> "Pattern Recognition & Sequences",
      answers |-> Options(3), correctAnswers |-> <<0, 1>>, score |-> 0, weight |-> 0],
     \* malformed: a multipleChoice question with two correct answers
     [type |-> "multipleChoice", category |-> "Abstract Thinking",
      answers |-> Options(4), correctAnswers |-> <<0, 1>>, score |-> 10, weight |-> 1]}

\* what a user may submit for a question (<<0, 2>> is out of range for a
\* trueFalse question)
BankAnswers == {<<1>>, <<0, 1>>, <<0, 2>>}

QuestionId(i) == "q" \o ToString(i)
WithId(shape, i) ==
    [id |-> QuestionId(i), type |-> shape.type, category |-> shape.category,
     answers |-> shape.answers, correctAnswers |-> shape.correctAnswers,
     score |-> shape.score, weight |-> shape.weight]

AssessmentInput(n, shapes, answers) ==
    [assessmentId |-> "asmt_001", userId |-> "user_123",
     questions |-> [i \in 1..n |-> WithId(shapes[i], i)],
     userAnswers |-> answers]

\* the variables of a run before its first step
Started ==
    /\ validation = <<>>
    /\ questionResults = <<>>
    /\ categoryResults = <<>>
    /\ overall = <<>>
    /\ metadata = <<>>
    /\ analysis = <<>>
    /\ recommendations = <<>>
    /\ assessmentError = ""
    /\ QuestionIdle /\ CategoryIdle /\ TierIdle /\ AnalysisIdle

\* scoreAssessment(input) without options, where the recommender loads
Init ==
    /\ \E n \in 0..MaxQuestions :
        \E shapes \in [1..n -> QuestionBank] :
            \E ids \in SUBSET {QuestionId(i) : i \in 1..n} :
                \E answers \in [ids -> BankAnswers] :
                    input = AssessmentInput(n, shapes, answers)
    /\ options = NoOptions
    /\ recommenderLoads = TRUE
    /\ pc = "scoreQuestions"
    /\ Started

\* Step 1: scoreQuestions; an Error rejects the promise of scoreAssessment
StepScoreQuestions ==
    /\ pc = "scoreQuestions"
    /\ LET r == scoreQuestions(input.questions, input.userAnswers) IN
        /\ questionResults' = r.results
        /\ assessmentError' = r.error
        /\ pc' = IF r.error = "" THEN "scoreCategories" ELSE "failed"
    /\ UNCHANGED <<input, options, recommenderLoads, validation, categoryResults,
                   overall, metadata, analysis, recommendations,
                   questionVars, categoryVars, tierVars, analysisVars>>

\* Step 2: scoreCategories
StepScoreCategories ==
    /\ pc = "scoreCategories"
    /\ categoryResults' = scoreCategories(questionResults)
    /\ pc' = "calculateWeightedContributions"
    /\ UNCHANGED <<input, options, recommenderLoads, validation, questionResults,
                   overall, metadata, analysis, recommendations, assessmentError,
                   questionVars, categoryVars, tierVars, analysisVars>>

\* Step 3: calculateWeightedContributions
StepWeightedContributions ==
    /\ pc = "calculateWeightedContributions"
    /\ categoryResults' = calculateWeightedContributions(categoryResults)
    /\ pc' = "calculateOverallResult"
    /\ UNCHANGED <<input, options, recommenderLoads, validation, questionResults,
                   overall, metadata, analysis, recommendations, assessmentError,
                   questionVars, categoryVars, tierVars, analysisVars>>

\* Steps 4 and 5: calculateOverallResult and calculateMetadata; timeSpent is
\* passed through to the results unread
StepOverallResult ==
    /\ pc = "calculateOverallResult"
    /\ overall' = <<calculateOverallResult(categoryResults, questionResults)>>
    /\ metadata' = <<calculateMetadata(input, questionResults, OptionsOf(options).version)>>
    /\ pc' = "generateAnalysis"
    /\ UNCHANGED <<input, options, recommenderLoads, validation, questionResults,
                   categoryResults, analysis, recommendations, assessmentError,
                   questionVars, categoryVars, tierVars, analysisVars>>

\* Step 6: the analysis, or the empty structure when it is not asked for
StepGenerateAnalysis ==
    /\ pc = "generateAnalysis"
    /\ analysis' = <<IF OptionsOf(options).includeAnalysis
                        THEN generateAnalysis(categoryResults, overall[1])
                        ELSE createEmptyAnalysis>>
    /\ pc' = "generateRecommendations"
    /\ UNCHANGED <<input, options, recommenderLoads, validation, questionResults,
                   categoryResults, overall, metadata, recommendations,
                   assessmentError, questionVars, categoryVars, tierVars, analysisVars>>

\* Step 7: the recommendations, or the empty structure when they are not
\* asked for; then the result is built from input, overall, categoryResults,
\* questionResults, analysis, recommendations and metadata, and returned
\* (completedAt, the time of the call, is not modelled)
StepGenerateRecommendations ==
    /\ pc = "generateRecommendations"
    /\ recommendations' =
         <<IF OptionsOf(options).includeRecommendations
              THEN generateRecommendations(categoryResults, overall[1], analysis[1],
                                           recommenderLoads)
              ELSE createEmptyRecommendations>>
    /\ pc' = "done"
    /\ UNCHANGED <<input, options, recommenderLoads, validation, questionResults,
                   categoryResults, overall, metadata, analysis, assessmentError,
                   questionVars, categoryVars, tierVars, analysisVars>>

Next ==
    \/ StepScoreQuestions
    \/ StepScoreCategories
    \/ StepWeightedContributions
    \/ StepOverallResult
    \/ StepGenerateAnalysis
    \/ StepGenerateRecommendations

Spec == Init /\ [][Next]_vars

(***************************************************************************)
(* Claims on scoreQuestions, scoreAssessment and scoreCategories (Spec)    *)
(***************************************************************************)
Scored == pc \notin {"idle", "scoreQuestions"}
Answered(i) == input.questions[i].id \in DOMAIN input.userAnswers
\* the question at position i fails validation with the answers submitted for it
FailsValidation(i) ==
    LET q == input.questions[i] IN
    validateQuestionInput(q, IF Answered(i) THEN input.userAnswers[q.id] ELSE <<>>) # ""
\* the question at position i is well-formed by itself
WellFormed(i) == validateQuestionInput(input.questions[i], <<>>) = ""

\* C5: when at least one question of the list fails validation with its
\* submitted answers, the call fails and returns no results at all, wherever
\* the malformed question stands and however many others are well-formed.
C5_OneMalformedFailsAll ==
    (Scored /\ \E i \in DOMAIN input.questions : FailsValidation(i)) =>
        /\ pc = "failed" /\ assessmentError # ""
        /\ questionResults = <<>> /\ categoryResults = <<>> /\ overall = <<>>

C5_Witness ==
    /\ pc = "failed" /\ Len(input.questions) = 3
    /\ ~FailsValidation(1) /\ ~FailsValidation(2) /\ FailsValidation(3)
    /\ questionResults = <<>>

Categorised ==
    pc \in {"calculateWeightedContributions", "calculateOverallResult",
            "generateAnalysis", "generateRecommendations", "done"}
Members(name) == {i \in DOMAIN questionResults : questionResults[i].category = name}
RECURSIVE SumOfRat(_, _)
SumOfRat(indices, field) ==
    IF indices = {} THEN Zero
    ELSE LET i == CHOOSE j \in indices : TRUE
         IN  RAdd(questionResults[i][field], SumOfRat(indices \ {i}, field))
RECURSIVE SumOfInt(_, _)
SumOfInt(indices, field) ==
    IF indices = {} THEN 0
    ELSE LET i == CHOOSE j \in indices : TRUE
         IN  questionResults[i][field] + SumOfInt(indices \ {i}, field)

C7_OneResultPerCategory ==
    Categorised =>
        /\ {categoryResults[k].name : k \in DOMAIN categoryResults} =
             {questionResults[i].category : i \in DOMAIN questionResults}
        /\ \A k, l \in DOMAIN categoryResults :
             categoryResults[k].name = categoryResults[l].name => k = l
        /\ \A k \in DOMAIN categoryResults :
             LET cat == categoryResults[k]
                 members == Members(cat.name)
             IN  /\ members # {}
                 /\ cat.earnedPoints = SumOfRat(members, "earnedPoints")
                 /\ cat.maxPoints = SumOfInt(members, "maxPoints")
                 /\ cat.totalWeight = SumOfInt(members, "weight")
                 /\ cat.maxPoints = 0 => cat.percentage = Zero
                 /\ cat.maxPoints # 0 =>
                      cat.percentage[1] * cat.maxPoints * cat.earnedPoints[2] =
                        cat.earnedPoints[1] * 100 * cat.percentage[2]

C7_Witness ==
    /\ Categorised /\ Len(categoryResults) = 2 /\ Len(questionResults) = 3
    /\ categoryResults[1].name = "Logical Reasoning"
    /\ categoryResults[1].questionCount = 2
    /\ categoryResults[1].percentage = <<200, 3>>
    /\ categoryResults[2].maxPoints = 0 /\ categoryResults[2].percentage = Zero

\* The end-to-end scenario: one multipleChoice question (score 10, weight 3)
\* answered correctly in one category, one multipleSelect question (score 15,
\* weight 2, two correct answers) answered with one correct and one
\* incorrect selection in another.
Scenario ==
    /\ Categorised
    /\ Len(input.questions) = 2
    /\ DOMAIN input.userAnswers = {"q1", "q2"}
    /\ LET a == input.questions[1] IN
        /\ a.type = "multipleChoice" /\ a.category = "Logical Reasoning"
        /\ a.score = 10 /\ a.weight = 3
        /\ input.userAnswers["q1"] = a.correctAnswers
    /\ LET b == input.questions[2] IN
        /\ b.type = "multipleSelect" /\ b.category = "Abstract Thinking"
        /\ b.score = 15 /\ b.weight = 2 /\ b.correctAnswers = <<0, 1>>
        /\ input.userAnswers["q2"] = <<0, 2>>
PercentageOf(name) ==
    LET k == CHOOSE l \in DOMAIN categoryResults : categoryResults[l].name = name
    IN  categoryResults[k].percentage

\* C22: in the scenario the category of the multipleChoice question has the
\* percentage 100 and the category of the multipleSelect question has 50.
C22_ScenarioPercentages ==
    Scenario =>
        /\ PercentageOf("Logical Reasoning") = Num(100)
        /\ PercentageOf("Abstract Thinking") = Num(50)

\* C22, amended: in the scenario the category of the multipleChoice question
\* has the percentage 100 and the category of the multipleSelect question
\* has 25 (3.75 of 15 points).
C22_ScenarioPercentagesQuarter ==
    Scenario =>
        /\ Len(categoryResults) = 2
        /\ PercentageOf("Logical Reasoning") = Num(100)
        /\ PercentageOf("Abstract Thinking") = Num(25)
        /\ questionResults[2].earnedPoints = <<15, 4>>

C22_Witness ==
    /\ Scenario /\ pc = "done"
    /\ categoryResults[1].name = "Abstract Thinking"
    /\ categoryResults[1].correctCount = 0 /\ categoryResults[1].partialCreditCount = 1
    /\ categoryResults[2].correctCount = 1

\* C25: in every CategoryResult correctCount + partialCreditCount +
\* incorrectCount = questionCount = number of question ids listed, and no
\* QuestionResult is flagged both correct and partial credit.
C25_CountsPartition ==
    Categorised =>
        /\ \A i \in DOMAIN questionResults :
             ~(questionResults[i].isCorrect /\ questionResults[i].isPartialCredit)
        /\ \A k \in DOMAIN categoryResults :
             LET cat == categoryResults[k]
                 members == Members(cat.name)
             IN  /\ cat.correctCount + cat.partialCreditCount + cat.incorrectCount
                      = cat.questionCount
                 /\ cat.questionCount = Len(cat.questions)
                 /\ cat.questionCount = Cardinality(members)
                 /\ cat.correctCount =
                      Cardinality({i \in members : questionResults[i].isCorrect})
                 /\ cat.partialCreditCount =
                      Cardinality({i \in members : questionResults[i].isPartialCredit})

C25_Witness ==
    /\ Categorised /\ Len(categoryResults) = 1
    /\ categoryResults[1].correctCount = 1
    /\ categoryResults[1].partialCreditCount = 1
    /\ categoryResults[1].incorrectCount = 1

\* C26: in every result whose categories have a positive total weight the
\* weightedContribution values of the categories add up to
\* overall.percentage, and overall.score equals overall.percentage.
OverallKnown == pc \in {"generateAnalysis", "generateRecommendations", "done"}
RankLabel(tier) ==
    CASE tier = 1 -> "Novice" [] tier = 2 -> "Beginner" [] tier = 3 -> "Intermediate"
      [] tier = 4 -> "Advanced" [] tier = 5 -> "Expert"
C28_TierRankClassification ==
    Categorised =>
        /\ \A k \in DOMAIN categoryResults :
             LET cat == categoryResults[k] IN
             /\ cat.tier \in 1..5
             /\ cat.classification = "exceptional" <=> cat.tier = 5
             /\ cat.tier = 1 => cat.classification = "critical-weakness"
             /\ cat.classification = "critical-weakness" => cat.tier \in {1, 2}
             /\ cat.rank = RankLabel(cat.tier)
        /\ LET scored == scoreCategories(questionResults) IN
             /\ Len(categoryResults) = Len(scored)
             /\ \A k \in DOMAIN categoryResults :
                  [categoryResults[k] EXCEPT !.weightedContribution = Zero] = scored[k]

C28_Witness ==
    /\ pc = "done" /\ Len(categoryResults) = 1
    /\ categoryResults[1].percentage = <<125, 3>>
    /\ categoryResults[1].tier = 2 /\ categoryResults[1].rank = "Beginner"
    /\ categoryResults[1].classification = "critical-weakness"
    /\ categoryResults[1].weightedContribution = <<125, 3>>

(***************************************************************************)
(* Specification SpecCategories: a caller of the exported functions        *)
(* calculateWeightedContributions, filterByClassification and              *)
(* calculateOverallScore on a list that scoreCategories returned           *)
(***************************************************************************)
MaxCategories == 3  \* categories of the list

\* Question weights are not validated by the scorer; 1 and 2 are ordinary,
\* 0 and -1 are the weights that make a total weight of 0 possible.
Weights == {-1, 0, 1, 2}
\* answers to a multipleSelect question with correct answers <<0, 1>>:
\* nothing, half and all of the points
CategoryAnswers == {<<>>, <<0>>, <<0, 1>>}

\* one multipleSelect question (score 10) in the i-th category
CategoryQuestion(i, w) ==
    [id |-> QuestionId(i), type |-> "multipleSelect", category |-> CategoryNames[i],
     answers |-> Options(4), correctAnswers |-> <<0, 1>>, score |-> 10, weight |-> w]

InitCategories ==
    /\ \E n \in 0..MaxCategories :
        \E weights \in [1..n -> Weights], answers \in [1..n -> CategoryAnswers] :
            categoryList = scoreCategories(
                scoreQuestions([i \in 1..n |-> CategoryQuestion(i, weights[i])],
                               [id \in {QuestionId(i) : i \in 1..n} |->
                                   answers[CHOOSE i \in 1..n : QuestionId(i) = id]]).results)
    /\ lastCall = "none"
    /\ lastInput = <<>>
    /\ overallScore = <<>>
    /\ halvedScore = <<>>
    /\ QuestionIdle /\ AssessmentIdle /\ TierIdle /\ AnalysisIdle

CallCalculateWeightedContributions ==
    /\ lastCall # "idle"
    /\ categoryList' = calculateWeightedContributions(categoryList)
    /\ lastCall' = "calculateWeightedContributions"
    /\ lastInput' = categoryList
    /\ overallScore' = <<>>
    /\ halvedScore' = <<>>
    /\ UNCHANGED <<questionVars, assessmentVars, tierVars, analysisVars>>

Classifications ==
    {"exceptional", "strength", "adequate", "weakness", "critical-weakness"}

CallFilterByClassification ==
    /\ lastCall # "idle"
    /\ \E c \in Classifications :
        categoryList' = filterByClassification(categoryList, c)
    /\ lastCall' = "filterByClassification"
    /\ lastInput' = categoryList
    /\ overallScore' = <<>>
    /\ halvedScore' = <<>>
    /\ UNCHANGED <<questionVars, assessmentVars, tierVars, analysisVars>>

CallCalculateOverallScore ==
    /\ lastCall # "idle"
    /\ overallScore' = <<calculateOverallScore(categoryList)>>
    /\ lastCall' = "calculateOverallScore"
    /\ lastInput' = categoryList
    /\ halvedScore' = <<>>
    /\ UNCHANGED <<categoryList, questionVars, assessmentVars, tierVars, analysisVars>>

\* the list with the i-th category replaced by two categories that have its
\* percentage and half its total weight each (weights are integers in the
\* model, so the category's total weight is even)
InHalves(cats, i) ==
    LET half == [cats[i] EXCEPT !.totalWeight = cats[i].totalWeight \div 2]
    IN  SubSeq(cats, 1, i - 1) \o <<half, half>> \o SubSeq(cats, i + 1, Len(cats))

\* calculateOverallScore once more, on the list just scored with one of its
\* categories in halves
CallCalculateOverallScoreOnHalves ==
    /\ lastCall = "calculateOverallScore"
    /\ \E i \in DOMAIN categoryList :
        /\ categoryList[i].totalWeight % 2 = 0
        /\ lastInput' = InHalves(categoryList, i)
        /\ halvedScore' = <<calculateOverallScore(InHalves(categoryList, i))>>
    /\ lastCall' = "calculateOverallScore on halves"
    /\ UNCHANGED <<categoryList, overallScore, questionVars, assessmentVars, tierVars,
                   analysisVars>>

NextCategories ==
    \/ CallCalculateWeightedContributions
    \/ CallFilterByClassification
    \/ CallCalculateOverallScore
    \/ CallCalculateOverallScoreOnHalves

SpecCategories == InitCategories /\ [][NextCategories]_vars

(***************************************************************************)
(* Claims on the weighted contributions and the overall score              *)
(* (SpecCategories)                                                        *)
(***************************************************************************)
RECURSIVE TotalWeightOf(_)
TotalWeightOf(cats) ==
    IF cats = <<>> THEN 0 ELSE Head(cats).totalWeight + TotalWeightOf(Tail(cats))

\* sum of percentage * totalWeight, as a rational
RECURSIVE WeightedSumOf(_)
WeightedSumOf(cats) ==
    IF cats = <<>> THEN Zero
    ELSE RAdd(Rat(Head(cats).percentage[1] * Head(cats).totalWeight,
                  Head(cats).percentage[2]),
              WeightedSumOf(Tail(cats)))

\* C8: calculateWeightedContributions returns the categories with
\* weightedContribution = percentage * totalWeight / (sum of all totalWeight),
\* and with weightedContribution = 0 for every category when that sum is 0.
C8_WeightedContributions ==
    lastCall = "calculateWeightedContributions" =>
        /\ Len(categoryList) = Len(lastInput)
        /\ \A i \in DOMAIN lastInput :
            LET total == TotalWeightOf(lastInput)
                wc == categoryList[i].weightedContribution
                pct == lastInput[i].percentage
            IN  IF total = 0 THEN wc = Zero
                ELSE wc[1] * pct[2] * total = pct[1] * lastInput[i].totalWeight * wc[2]

\* C9: calculateOverallScore returns the weight-weighted mean of the category
\* percentages, sum(percentage * totalWeight) / sum(totalWeight), and 0 when
\* the list is empty or the total weight is 0.
C9_OverallScoreIsWeightedMean ==
    lastCall = "calculateOverallScore" =>
        LET total == TotalWeightOf(lastInput)
            weighted == WeightedSumOf(lastInput)
            score == overallScore[1]
        IN  IF lastInput = <<>> \/ total = 0 THEN score = Zero
            ELSE score[1] * weighted[2] * total = weighted[1] * score[2]

C9_Witness ==
    /\ lastCall = "calculateOverallScore" /\ Len(lastInput) = 2
    /\ lastInput[1].percentage = Num(100) /\ lastInput[1].totalWeight = 2
    /\ lastInput[2].percentage = Num(50) /\ lastInput[2].totalWeight = 1
    /\ overallScore = << <<250, 3>> >>

\* C13: for a list with positive total weight, calculateOverallScore returns
\* the same percentage when one category with percentage p and total weight
\* w is replaced by two categories with percentage p and total weight w / 2.
Halved ==
    /\ lastCall = "calculateOverallScore on halves"
    /\ Len(lastInput) = Len(categoryList) + 1
    /\ TotalWeightOf(categoryList) > 0
PercentSteps == 2   \* the percentages are the multiples of 1/PercentSteps

InitTier ==
    /\ \E a, b \in 0..(100 * PercentSteps) :
        percentages = <<Rat(a, PercentSteps), Rat(b, PercentSteps)>>
    /\ tiers = <<>>
    /\ classifications = <<>>
    /\ QuestionIdle /\ AssessmentIdle /\ CategoryIdle /\ AnalysisIdle

CallGetTierFromPercentage ==
    /\ percentages # <<>> /\ tiers = <<>>
    /\ tiers' = [i \in 1..2 |-> getTierFromPercentage(percentages[i])]
    /\ UNCHANGED <<percentages, classifications, questionVars, assessmentVars,
                   categoryVars, analysisVars>>

CallGetPerformanceClassification ==
    /\ percentages # <<>> /\ classifications = <<>>
    /\ classifications' = [i \in 1..2 |-> getPerformanceClassification(percentages[i])]
    /\ UNCHANGED <<percentages, tiers, questionVars, assessmentVars, categoryVars,
                   analysisVars>>

NextTier == CallGetTierFromPercentage \/ CallGetPerformanceClassification

SpecTier == InitTier /\ [][NextTier]_vars

\* C10: getTierFromPercentage maps every percentage of [0, 100] to exactly one
\* tier: 1 below 40, 2 in [40, 55), 3 in [55, 70), 4 in [70, 85), 5 from 85;
\* it is non-decreasing and 40, 55, 70 and 85 fall in the higher tier.
Below(p, bound) == p[1] < bound * p[2]
C10_TierBands ==
    tiers # <<>> =>
        /\ \A i \in 1..2 :
            LET p == percentages[i]
                t == tiers[i]
            IN  /\ t \in 1..5
                /\ t = 1 <=> Below(p, 40)
                /\ t = 2 <=> ~Below(p, 40) /\ Below(p, 55)
                /\ t = 3 <=> ~Below(p, 55) /\ Below(p, 70)
                /\ t = 4 <=> ~Below(p, 70) /\ Below(p, 85)
                /\ t = 5 <=> ~Below(p, 85)
                /\ p = Num(40) => t = 2
                /\ p = Num(55) => t = 3
                /\ p = Num(70) => t = 4
                /\ p = Num(85) => t = 5
        /\ percentages[1][1] * percentages[2][2] <= percentages[2][1] * percentages[1][2]
             => tiers[1] <= tiers[2]

C10_Witness ==
    /\ percentages = << <<79, 2>>, <<40, 1>> >>
    /\ tiers = <<1, 2>>

\* C11: getPerformanceClassification maps every percentage of [0, 100] to
\* exactly one band: critical-weakness below 45, weakness in [45, 60),
\* adequate in [60, 75), strength in [75, 85), exceptional from 85; the band
\* is non-decreasing in the percentage and 45, 60, 75 and 85 fall in the
\* higher band.
BandOrder ==
    <<"critical-weakness", "weakness", "adequate", "strength", "exceptional">>
BandRank(c) == CHOOSE i \in 1..5 : BandOrder[i] = c
C11_ClassificationBands ==
    classifications # <<>> =>
        /\ \A i \in 1..2 :
            LET p == percentages[i]
                c == classifications[i]
            IN  /\ \E k \in 1..5 : c = BandOrder[k]
                /\ c = "critical-weakness" <=> Below(p, 45)
                /\ c = "weakness" <=> ~Below(p, 45) /\ Below(p, 60)
                /\ c = "adequate" <=> ~Below(p, 60) /\ Below(p, 75)
                /\ c = "strength" <=> ~Below(p, 75) /\ Below(p, 85)
                /\ c = "exceptional" <=> ~Below(p, 85)
                /\ p = Num(45) => c = "weakness"
                /\ p = Num(60) => c = "adequate"
                /\ p = Num(75) => c = "strength"
                /\ p = Num(85) => c = "exceptional"
        /\ percentages[1][1] * percentages[2][2] <= percentages[2][1] * percentages[1][2]
             => BandRank(classifications[1]) <= BandRank(classifications[2])

C11_Witness ==
    /\ percentages = << <<149, 2>>, <<75, 1>> >>
    /\ classifications = <<"adequate", "strength">>

(***************************************************************************)
(* Specification SpecAnalysis: a caller of the performance analyzer's      *)
(* exported functions analyzePerformance, calculateConsistency and         *)
(* identifyProfile                                                         *)
(***************************************************************************)
MaxAnalysed == 4   \* categories of the analysed list
\* category percentages: two values in the bands that have room for them,
\* the band limits 45 .. 85 between them
AnalysisPercentages == {0, 40, 50, 70, 80, 90, 100}
\* overall percentages: one below 55 and the limits 55, 60, 70, 85 of the
\* profile and improvement-potential rules
AnalysisOveralls == {50, 55, 60, 70, 85}

\* the CategoryResult scoreCategoryFromResults returns for the i-th category
\* when its one question earned p of 100 points
AnalysedCategory(i, p) ==
    scoreCategoryFromResults(CategoryNames[i],
        <<[questionId |-> QuestionId(i), category |-> CategoryNames[i],
           type |-> "multipleSelect", userAnswers |-> <<0>>, correctAnswers |-> <<0, 1>>,
           earnedPoints |-> Num(p), maxPoints |-> 100, percentage |-> Num(p),
           isCorrect |-> p = 100, isPartialCredit |-> p > 0 /\ p < 100,
           partialCreditDetails |-> <<>>, weight |-> 1]>>)

\* an OverallResult with the percentage p
AnalysedOverall(p) ==
    [score |-> Num(p), maxPossible |-> 100, earnedPoints |-> Num(p),
     percentage |-> Num(p), tier |-> getTierFromPercentage(Num(p)),
     rank |-> getTierRank(getTierFromPercentage(Num(p)))]

InitAnalysis ==
    /\ \E n \in 0..MaxAnalysed :
        \E ps \in [1..n -> AnalysisPercentages] :
            analysisCategories = [i \in 1..n |-> AnalysedCategory(i, ps[i])]
    /\ \E p \in AnalysisOveralls : analysisOverall = <<AnalysedOverall(p)>>
    /\ performanceAnalysis = <<>>
    /\ consistencyMetrics = <<>>
    /\ profile = <<>>
    /\ QuestionIdle /\ AssessmentIdle /\ CategoryIdle /\ TierIdle

CallCalculateConsistency ==
    /\ analysisOverall # <<>>
    /\ consistencyMetrics = <<>> /\ performanceAnalysis = <<>>
    /\ consistencyMetrics' = <<calculateConsistency(analysisCategories)>>
    /\ UNCHANGED <<analysisCategories, analysisOverall, performanceAnalysis, profile,
                   questionVars, assessmentVars, categoryVars, tierVars>>

CallAnalyzePerformance ==
    /\ analysisOverall # <<>>
    /\ consistencyMetrics = <<>> /\ performanceAnalysis = <<>>
    /\ performanceAnalysis' = <<analyzePerformance(analysisCategories, analysisOverall[1])>>
    /\ UNCHANGED <<analysisCategories, analysisOverall, consistencyMetrics, profile,
                   questionVars, assessmentVars, categoryVars, tierVars>>

\* identifyProfile on the analysis that analyzePerformance returned
CallIdentifyProfile ==
    /\ performanceAnalysis # <<>> /\ profile = <<>>
    /\ profile' = <<identifyProfile(analysisOverall[1], performanceAnalysis[1])>>
    /\ UNCHANGED <<analysisCategories, analysisOverall, performanceAnalysis,
                   consistencyMetrics, questionVars, assessmentVars, categoryVars,
                   tierVars>>

NextAnalysis ==
    \/ CallCalculateConsistency
    \/ CallAnalyzePerformance
    \/ CallIdentifyProfile

SpecAnalysis == InitAnalysis /\ [][NextAnalysis]_vars

(***************************************************************************)
(* Claims on the performance analyzer (SpecAnalysis)                       *)
(***************************************************************************)
\* C16: analyzePerformance places every input category in exactly one of the
\* five lists, the one getPerformanceClassification gives for its
\* percentage, so the list lengths sum to the number of categories, and each
\* list is ordered by percentage descending.
BandLists(a) ==
    [c \in Classifications |->
        CASE c = "exceptional" -> a.exceptional
          [] c = "strength" -> a.strengths
          [] c = "adequate" -> a.adequate
          [] c = "weakness" -> a.weaknesses
          [] c = "critical-weakness" -> a.criticalWeaknesses]
Occurrences(list, category) ==
    Cardinality({k \in DOMAIN list :
        /\ list[k].name = category.name
        /\ list[k].percentage = category.percentage
        /\ list[k].tier = category.tier
        /\ list[k].questionCount = category.questionCount})
C16_PartitionIntoBands ==
    performanceAnalysis # <<>> =>
        LET lists == BandLists(performanceAnalysis[1]) IN
        /\ \A i \in DOMAIN analysisCategories :
            \A c \in Classifications :
                Occurrences(lists[c], analysisCategories[i]) =
                    IF c = getPerformanceClassification(analysisCategories[i].percentage)
                    THEN 1 ELSE 0
        /\ Len(lists["exceptional"]) + Len(lists["strength"]) + Len(lists["adequate"])
             + Len(lists["weakness"]) + Len(lists["critical-weakness"])
             = Len(analysisCategories)
        /\ \A c \in Classifications :
            \A k, l \in DOMAIN lists[c] :
                k < l => lists[c][l].percentage[1] * lists[c][k].percentage[2]
                           <= lists[c][k].percentage[1] * lists[c][l].percentage[2]

C16_Witness ==
    /\ performanceAnalysis # <<>>
    /\ [i \in DOMAIN analysisCategories |-> analysisCategories[i].percentage[1]]
         = <<90, 100, 40, 0>>
    /\ [k \in 1..2 |-> performanceAnalysis[1].exceptional[k].percentage[1]] = <<100, 90>>
    /\ [k \in 1..2 |-> performanceAnalysis[1].criticalWeaknesses[k].percentage[1]] = <<40, 0>>

\* C17 as stated: for a non-empty list consistencyScore is
\* clamp(0, 100, 100 - 2 * CV) with CV = standard deviation / mean * 100, or 0
\* when the mean is 0; it is 100 whenever all percentages are equal, and 0
\* whenever the standard deviation is at least half the mean.
\* With n percentages of sum S and sum of squares Q the variance is
\* (n * Q - S * S) / (n * n) and the mean S / n, so (CV / 100)^2 is
\* (n * Q - S * S) / (S * S).
AnalysedScores == [i \in DOMAIN analysisCategories |-> analysisCategories[i].percentage[1]]
RECURSIVE SumOver(_, _)
SumOver(s, squaredTerms) ==
    IF s = <<>> THEN 0
    ELSE SumOver(SubSeq(s, 1, Len(s) - 1), squaredTerms)
           + (IF squaredTerms THEN s[Len(s)] * s[Len(s)] ELSE s[Len(s)])
ScaledVariance ==
    Len(AnalysedScores) * SumOver(AnalysedScores, TRUE)
      - SumOver(AnalysedScores, FALSE) * SumOver(AnalysedScores, FALSE)
SquaredSum == SumOver(AnalysedScores, FALSE) * SumOver(AnalysedScores, FALSE)
\* the square of 100 - consistencyScore
Deficit == consistencyMetrics[1].consistencyScore.hundredMinus.squared
ConsistencyCalled ==
    /\ consistencyMetrics # <<>> /\ Len(analysisCategories) > 0
    /\ \A i \in DOMAIN analysisCategories : analysisCategories[i].percentage[2] = 1
ConsistencyFormula ==
    /\ SquaredSum = 0 => Deficit = Zero
    /\ (SquaredSum # 0 /\ 4 * ScaledVariance >= SquaredSum) => Deficit = Num(100 * 100)
    /\ (SquaredSum # 0 /\ 4 * ScaledVariance < SquaredSum) =>
          RDiv(Deficit, Num(100 * 100)) = Rat(4 * ScaledVariance, SquaredSum)
AllEqual == \A i, j \in DOMAIN AnalysedScores : AnalysedScores[i] = AnalysedScores[j]
C17_ConsistencyScore ==
    ConsistencyCalled =>
        /\ ConsistencyFormula
        /\ AllEqual => Deficit = Zero
        /\ 4 * ScaledVariance >= SquaredSum => Deficit = Num(100 * 100)

\* C17 amended: the same, with the score 0 whenever the mean is not 0 and
\* the standard deviation is at least half the mean.
C17_ConsistencyScoreNonZeroMean ==
    ConsistencyCalled =>
        /\ ConsistencyFormula
        /\ AllEqual => Deficit = Zero
        /\ (SquaredSum # 0 /\ 4 * ScaledVariance >= SquaredSum) =>
              Deficit = Num(100 * 100)

C17_Witness ==
    /\ ConsistencyCalled
    /\ AnalysedScores = <<100, 0, 100, 0>>
    /\ consistencyMetrics[1].consistencyScore = ScoreZero
    /\ consistencyMetrics[1].mean = Num(50)
    /\ consistencyMetrics[1].standardDeviation = Sqrt(Num(2500))

\* C18: the improvement potential of analyzePerformance is 'low' when the
\* overall percentage is at least 85; otherwise 'high' when overall < 60 and
\* consistencyScore > 70; otherwise 'high' when overall < 70 or
\* consistencyScore < 50; otherwise 'medium'.
AnalysedDeficit == performanceAnalysis[1].consistencyScore.hundredMinus.squared
ConsistencyAbove70 == AnalysedDeficit[1] < 30 * 30 * AnalysedDeficit[2]
ConsistencyBelow50 == AnalysedDeficit[1] > 50 * 50 * AnalysedDeficit[2]
WithoutSecondRule ==
    LET o == analysisOverall[1].percentage IN
    IF ~Below(o, 85) THEN "low"
    ELSE IF Below(o, 70) \/ ConsistencyBelow50 THEN "high"
    ELSE "medium"
C19_EarlyStageOnlyBelow55 ==
    profile # <<>> =>
        (profile[1] = "early-stage" => Below(analysisOverall[1].percentage, 55))

(***************************************************************************)
(* Specification SpecOptions: scoreAssessment(input, options) with every   *)
(* combination of the options, in an installation where the recommender    *)
(* loads and in one where it does not                                      *)
(***************************************************************************)
\* Well-formed questions with every answer given.  Question weights are not
\* validated by the scorer: the third question has the weight -1.
OptionsBank ==
    {[type |-> "multipleChoice", category |-> "Logical Reasoning",
      answers |-> Options(4), correctAnswers |-> <<1>>, score |-> 10, weight |-> 3],
     [type |-> "multipleSelect", category |-> "Abstract Thinking",
      answers |-> Options(4), correctAnswers |-> <<0, 1>>, score |-> 15, weight |-> 2],
     [type |-> "multipleChoice", category |-> "Attention to Detail",
      answers |-> Options(4), correctAnswers |-> <<1>>, score |-> 10, weight |-> -1]}
OptionsAnswers == {<<1>>, <<0, 1>>}

InitOptions ==
    /\ \E n \in 0..MaxQuestions :
        \E shapes \in [1..n -> OptionsBank] :
            \E answers \in [{QuestionId(i) : i \in 1..n} -> OptionsAnswers] :
                input = AssessmentInput(n, shapes, answers)
    /\ \E a, r \in {<<>>, <<TRUE>>, <<FALSE>>} :
        options = [includeAnalysis |-> a, includeRecommendations |-> r, version |-> <<>>]
    /\ recommenderLoads \in BOOLEAN
    /\ pc = "scoreQuestions"
    /\ Started

SpecOptions == InitOptions /\ [][Next]_vars

(***************************************************************************)
(* Claims on the result of scoreAssessment (SpecOptions)                   *)
(***************************************************************************)
\* C12: in every result that scoreAssessment returns, each question's
\* percentage, each category's percentage, the overall percentage and the
\* consistency score lie in [0, 100], and questionCount, correctCount,
\* partialCreditCount and incorrectCount are non-negative integers.
InPercentRange(p) == 0 <= p[1] /\ p[1] <= 100 * p[2]
C12_PercentagesAndCounts ==
    pc = "done" =>
        /\ \A i \in DOMAIN questionResults : InPercentRange(questionResults[i].percentage)
        /\ \A k \in DOMAIN categoryResults :
            /\ InPercentRange(categoryResults[k].percentage)
            /\ categoryResults[k].questionCount \in Nat
            /\ categoryResults[k].correctCount \in Nat
            /\ categoryResults[k].partialCreditCount \in Nat
            /\ categoryResults[k].incorrectCount \in Nat
        /\ InPercentRange(overall[1].percentage)
        /\ LET deficit == analysis[1].consistencyScore.hundredMinus.squared
           IN  0 <= deficit[1] /\ deficit[1] <= 100 * 100 * deficit[2]

\* C15: scoreAssessment either fails or returns a result in which the output
\* of every requested stage was computed by that stage, never the empty
\* structure in place of a requested stage that failed.
C15_AllOrNothing ==
    pc = "done" =>
        /\ questionResults = scoreQuestions(input.questions, input.userAnswers).results
        /\ categoryResults = calculateWeightedContributions(scoreCategories(questionResults))
        /\ overall[1] = calculateOverallResult(categoryResults, questionResults)
        /\ OptionsOf(options).includeAnalysis =>
              analysis[1] = analyzePerformance(categoryResults, overall[1])
        /\ OptionsOf(options).includeRecommendations =>
              /\ recommendations[1] = recommend(categoryResults, overall[1], analysis[1])
              /\ recommendations[1] # createEmptyRecommendations

\* C21: with includeAnalysis false the result's analysis has five empty band
\* lists and the consistencyScore 0, while the question results, the
\* category results and the overall result are the ones the input gives
\* under any options; with the option omitted the analyzer runs.
C21_AnalysisSwitchedOff ==
    pc = "done" =>
        /\ questionResults = scoreQuestions(input.questions, input.userAnswers).results
        /\ categoryResults = calculateWeightedContributions(scoreCategories(questionResults))
        /\ overall[1] = calculateOverallResult(categoryResults, questionResults)
        /\ options.includeAnalysis = <<FALSE>> =>
              /\ analysis[1].exceptional = <<>> /\ analysis[1].strengths = <<>>
              /\ analysis[1].adequate = <<>> /\ analysis[1].weaknesses = <<>>
              /\ analysis[1].criticalWeaknesses = <<>>
              /\ analysis[1].consistencyScore.hundredMinus.squared = Num(100 * 100)
        /\ options.includeAnalysis = <<>> =>
              /\ analysis[1] = analyzePerformance(categoryResults, overall[1])
              /\ Len(analysis[1].exceptional) + Len(analysis[1].strengths)
                   + Len(analysis[1].adequate) + Len(analysis[1].weaknesses)
                   + Len(analysis[1].criticalWeaknesses) = Len(categoryResults)

C21_Witness ==
    /\ pc = "done" /\ options.includeAnalysis = <<FALSE>>
    /\ Len(categoryResults) = 3
    /\ analysis = <<createEmptyAnalysis>>
    /\ overall[1].percentage = Num(100)

(***************************************************************************)
(* Specification SpecValidation: scoreAssessmentWithValidation(input)      *)
(***************************************************************************)
\* an input whose identifiers may be empty and whose answer map may be absent
ValidationInput(assessmentId, userId, n, shapes, given, answers) ==
    [assessmentId |-> assessmentId, userId |-> userId,
     questions |-> [i \in 1..n |-> WithId(shapes[i], i)],
     userAnswers |-> answers, hasUserAnswers |-> given]

\* a key of the answer map that is the id of no question
ExtraId == "q0"

InitValidation ==
    /\ \E assessmentId \in {"", "asmt_001"}, userId \in {"", "user_123"} :
        \E n \in 0..MaxQuestions :
            \E shapes \in [1..n -> OptionsBank] :
                \E ids \in SUBSET ({QuestionId(i) : i \in 1..n} \cup {ExtraId}),
                   given \in BOOLEAN :
                    /\ ~given => ids = {}
                    /\ input = ValidationInput(assessmentId, userId, n, shapes, given,
                                               [id \in ids |-> <<1>>])
    /\ options = NoOptions
    /\ recommenderLoads = TRUE
    /\ pc = "validateAssessmentInput"
    /\ Started

\* validateAssessmentInput, then the throw or the call of scoreAssessment
StepValidateAssessmentInput ==
    /\ pc = "validateAssessmentInput"
    /\ LET v == validateAssessmentInput(input) IN
        /\ validation' = <<v>>
        /\ assessmentError' = IF v.valid THEN "" ELSE "Invalid assessment input"
        /\ pc' = IF v.valid THEN "scoreQuestions" ELSE "failed"
    /\ UNCHANGED <<input, options, recommenderLoads, questionResults, categoryResults,
                   overall, metadata, analysis, recommendations,
                   questionVars, categoryVars, tierVars, analysisVars>>

NextValidation == StepValidateAssessmentInput \/ Next

SpecValidation == InitValidation /\ [][NextValidation]_vars

\* C20: validateAssessmentInput reports valid exactly when the assessment id
\* and the user id are non-empty, the question list is non-empty, the answer
\* map is present and every question id is one of its keys; it returns one
\* error per violated condition and per missing question id; and
\* scoreAssessmentWithValidation fails without scoring when the input is not
\* reported valid.
MissingIds ==
    IF input.hasUserAnswers
    THEN {input.questions[i].id : i \in DOMAIN input.questions} \ DOMAIN input.userAnswers
    ELSE {}
Violations ==
    (IF input.assessmentId = "" THEN 1 ELSE 0) + (IF input.userId = "" THEN 1 ELSE 0)
    + (IF input.questions = <<>> THEN 1 ELSE 0) + (IF input.hasUserAnswers THEN 0 ELSE 1)
C20_ValidationOfInput ==
    validation # <<>> =>
        LET v == validation[1] IN
        /\ v.valid <=> /\ input.assessmentId # "" /\ input.userId # ""
                       /\ input.questions # <<>> /\ input.hasUserAnswers
                       /\ MissingIds = {}
        /\ Len(v.errors) = Violations + Cardinality(MissingIds)
        /\ Cardinality(ToSet(v.errors)) = Len(v.errors)
        /\ \A id \in MissingIds : \E k \in DOMAIN v.errors :
              v.errors[k] = "Missing answer for question: " \o id
        /\ ~v.valid =>
              /\ pc = "failed" /\ assessmentError # ""
              /\ questionResults = <<>> /\ categoryResults = <<>> /\ overall = <<>>
              /\ analysis = <<>> /\ recommendations = <<>>

C20_Witness ==
    /\ validation # <<>> /\ pc = "failed"
    /\ input.assessmentId = "" /\ input.userId # "" /\ Len(input.questions) = 3
    /\ DOMAIN input.userAnswers = {"q2"}
    /\ validation[1].errors = <<"Assessment ID is required",
                                "Missing answer for question: q1",
                                "Missing answer for question: q3">>

\* C30: in every result of scoreAssessment metadata.questionsAnswered is the
\* number of questions of the question list that have an entry in the answer
\* map, and so never exceeds metadata.totalQuestions.
AnsweredQuestions ==
    {i \in DOMAIN input.questions : input.questions[i].id \in DOMAIN input.userAnswers}
C30_QuestionsAnswered ==
    pc = "done" =>
        /\ metadata[1].questionsAnswered = Cardinality(AnsweredQuestions)
        /\ metadata[1].questionsAnswered <= metadata[1].totalQuestions

====
